---- MODULE Spec2Model ----
(***************************************************************************)
(* Model of the paginated retrieval and concurrent aggregation engine of   *)
(* paa-schedule-assist (src/paa2.py, class PAAScheduleRetriever and        *)
(* bin_time), and of stages 3 and 4 of src/paa.py (PAAScheduleNabber).     *)
(*                                                                         *)
(* A Python str is a sequence of one-character strings, so that split(':') *)
(* int() and the f-string of bin_time are computed, not assumed.           *)
(* A calendar date is its offset i in range(n_days) from today.            *)
(***************************************************************************)
EXTENDS Integers, Sequences, FiniteSets, TLC

VARIABLES
    directory,   \* the provider directory the server holds: what get_providers returns
    script,      \* the transport's answers: script[t][d] is the sequence of responses to the walk of task t, day d
    n_days,      \* argument of get_all_available_times
    mainpc,      \* position of the calling thread in get_all_available_times
    providers,   \* local `providers`: the list returned by get_providers
    submitted,   \* number of executor.submit calls done (futures are 1..submitted)
    task,        \* per future: state of the _get_provider_slots call it runs
    reqs,        \* per future: the page requests sent so far (history)
    walks,       \* per future: the _get_provider_slots_for_date calls that returned (history)
    yielded,     \* futures that as_completed has already yielded, in order
    cur,         \* the future whose slots the collection loop is merging (0: none)
    rest,        \* slots of `cur` not yet merged
    slots_dict,  \* the index under construction
    sess_headers,  \* self.sess.headers: the headers the code has set on the shared session
    \* src/paa.py, PAAScheduleNabber._stage_4_fill_more_times
    workers,           \* self.workers
    more_script,       \* the transport's answers: more_script[i][d] to the requests of ProviderInfo i for date d
    prov_info_list,    \* the ProviderInfo objects of stage 3; worker threads update them in place
    s4pc,              \* position of the calling thread in _stage_4_fill_more_times
    s4_submitted,      \* number of ex.submit calls done
    fill,              \* per future: state of the _fill_more_time_slots call it runs
    fill_reqs,         \* per future: the requests sent so far (history)
    s4_yielded,        \* futures that as_completed has already yielded
    prov_info_filled,  \* local of the collection loop: 0 while unbound, else the index of a ProviderInfo
    out,               \* local `out`: the ProviderInfo objects appended, by index
    errors,            \* self.errors
    \* src/paa2.py, bin_time and a caller of it
    bin_arg,           \* argument `t` of the call
    bin_minutes,       \* argument `minutes` of the call
    bin_pc,            \* position of the caller: "call", "returned", "raised", "idle"
    bin_hist,          \* the calls that returned: argument and returned label (history)
    \* src/paa.py, PAAScheduleNabber._stage_3_get_provider_initial_schedule
    infos,             \* argument `infos`: the provider dicts of stage 2
    s3_script,         \* the transport's answers: s3_script[f] to the request of future f
    s3pc,              \* position of the calling thread in stage 3
    s3_futures,        \* per future: futures[f] = (info, fac_id), and the state of its self.sess.post call
    s3_yielded,        \* futures that as_completed has already yielded
    s3_j,              \* local `j` of the collection loop
    s3_out,            \* local `out`: the ProviderInfo objects appended
    s3_for,            \* per element of `out`: the future whose iteration appended it (history)
    \* src/paa.py, PAAScheduleNabber._fill_more_time_slots
    prov_info_given    \* the ProviderInfo objects as they were when stage 4 was called (history)

retrieverVars == <<directory, script, n_days, mainpc, providers, submitted, task, reqs, walks,
                   yielded, cur, rest, slots_dict, sess_headers>>

nabberVars == <<workers, more_script, prov_info_list, s4pc, s4_submitted, fill, fill_reqs,
                s4_yielded, prov_info_filled, out, errors>>

\* a caller of bin_time
binVars == <<bin_arg, bin_minutes, bin_pc, bin_hist>>

\* the state outside get_all_available_times and _stage_4_fill_more_times
\* stage 3 of a PAAScheduleNabber (it shares self.workers and self.errors with stage 4)
stage3Vars == <<infos, s3_script, s3pc, s3_futures, s3_yielded, s3_j, s3_out, s3_for>>

otherVars == <<binVars, stage3Vars, prov_info_given>>

vars == <<retrieverVars, nabberVars, otherVars>>

-----------------------------------------------------------------------------
(* Bounds of the model                                                     *)

\* longest run of "more" pages a scripted walk answers before its last response
MaxMorePages == 5
\* page requests after which a walk that never ends is no longer followed
MaxRequests == 52
\* providers in the directory of a fan-out run
MaxProviders == 2
\* days of the window of a fan-out run
MaxDays == 2

(* Program constants                                                       *)

\* ThreadPoolExecutor(max_workers=8)
max_workers == 8
\* bin_time(t, minutes=15)
default_minutes == 15

-----------------------------------------------------------------------------
(* Python strings                                                          *)

Digits == <<"0", "1", "2", "3", "4", "5", "6", "7", "8", "9">>

RECURSIVE DigitVal(_, _)
DigitVal(c, i) ==
    IF i > 10 THEN -1
    ELSE IF Digits[i] = c THEN i - 1
    ELSE DigitVal(c, i + 1)

IsDigit(c) == DigitVal(c, 1) >= 0

\* str.split(':')
RECURSIVE SplitFrom(_, _, _)
SplitFrom(s, i, field) ==
    IF i > Len(s) THEN <<field>>
    ELSE IF s[i] = ":" THEN <<field>> \o SplitFrom(s, i + 1, <<>>)
    ELSE SplitFrom(s, i + 1, Append(field, s[i]))

Split(s) == SplitFrom(s, 1, <<>>)

\* str.strip() of the blanks int() ignores around the number
RECURSIVE StripLeft(_)
StripLeft(s) == IF s # <<>> /\ Head(s) = " " THEN StripLeft(Tail(s)) ELSE s

RECURSIVE StripRight(_)
StripRight(s) ==
    IF s # <<>> /\ s[Len(s)] = " " THEN StripRight(SubSeq(s, 1, Len(s) - 1)) ELSE s

Strip(s) == StripRight(StripLeft(s))

HasSign(s) == s # <<>> /\ Head(s) \in {"+", "-"}

\* the digits of an int() literal, without blanks and sign
Unsigned(f) == IF HasSign(Strip(f)) THEN Tail(Strip(f)) ELSE Strip(f)

\* int(f) is defined: blanks, an optional sign, then digits, with single
\* underscores allowed between digits; ValueError otherwise
IsInt(f) ==
    LET u == Unsigned(f)
    IN  /\ Len(u) > 0
        /\ \A i \in 1..Len(u) :
               \/ IsDigit(u[i])
               \/ /\ u[i] = "_"
                  /\ 1 < i /\ i < Len(u)
                  /\ IsDigit(u[i - 1]) /\ IsDigit(u[i + 1])

RECURSIVE ToIntFrom(_, _, _)
ToIntFrom(u, i, acc) ==
    IF i > Len(u) THEN acc
    ELSE IF u[i] = "_" THEN ToIntFrom(u, i + 1, acc)
    ELSE ToIntFrom(u, i + 1, acc * 10 + DigitVal(u[i], 1))

ToInt(f) ==
    IF Strip(f) # <<>> /\ Head(Strip(f)) = "-" THEN 0 - ToIntFrom(Unsigned(f), 1, 0)
    ELSE ToIntFrom(Unsigned(f), 1, 0)

\* str(n)
RECURSIVE ToStr(_)
ToStr(n) ==
    IF n < 0 THEN <<"-">> \o ToStr(0 - n)
    ELSE IF n < 10 THEN <<Digits[n + 1]>>
    ELSE Append(ToStr(n \div 10), Digits[(n % 10) + 1])

\* Pad2, for a format spec without fill and width
Pad2_Unpadded(s) == s

\* format spec '0>2': right-aligned in a field of width 2, filled with "0"
Pad2(s) == IF Len(s) >= 2 THEN s ELSE IF Len(s) = 1 THEN <<"0">> \o s ELSE <<"0", "0">>

-----------------------------------------------------------------------------
(* bin_time                                                                *)

\* `h, m, *_ = t.split(':')` needs two fields and int(m) a number: ValueError otherwise
bin_time_raises(t) == Len(Split(t)) < 2 \/ ~IsInt(Split(t)[2])

\* bin_time, labelling with the end of the interval instead of its start
bin_time_NextBin(t, minutes) ==
    LET h == Split(t)[1]
        m == Split(t)[2]
        m_bin == ((ToInt(m) \div minutes) + 1) * minutes
    IN  h \o <<":">> \o Pad2(ToStr(m_bin))

\* f'{h}:{m_bin:0>2}' with m_bin = (int(m) // minutes) * minutes
bin_time(t, minutes) ==
    LET h == Split(t)[1]
        m == Split(t)[2]
        m_bin == (ToInt(m) \div minutes) * minutes
    IN  h \o <<":">> \o Pad2(ToStr(m_bin))

-----------------------------------------------------------------------------
(* The remote slot query and its responses                                 *)

T(a, b, c, d, e, f) == <<a, b, ":", c, d, ":", e, f>>

\* payload["start_time"] = "06:00:00"
earliest_time == T("0", "6", "0", "0", "0", "0")

\* a Python value that is a str or None
Str(s) == [k |-> "str", v |-> s]
None == [k |-> "null", v |-> <<>>]

\* one entry of appt_slots
Appt(d, t) == [date |-> d, time |-> t]

\* The outcome of one sess.post(...) followed by res.json():
\*   kind     "raise": the transport or the JSON decoding raises; "json": j is a dict
\*   status   j['status'], or "missing" when j has no such key
\*   shape    the first key missing on the path j['response']['appt_more_slots']['more']
\*   more     appts_info['more']
\*   next     appts_info['next_start_time'] (k = "missing": no such key)
\*   slots    appts_info.get('appt_slots', [])
Response(kind, status, shape, more, next, slots) ==
    [kind |-> kind, status |-> status, shape |-> shape, more |-> more,
     next |-> next, slots |-> slots]

Missing == [k |-> "missing", v |-> <<>>]

Page(more, next, slots) == Response("json", "success", "full", more, next, slots)
TransportError == Response("raise", "missing", "full", FALSE, Missing, <<>>)
NoStatus == Response("json", "missing", "full", FALSE, Missing, <<>>)
Fail(shape) == Response("json", "fail", shape, FALSE, Missing, <<>>)
NoShape(shape) == Response("json", "success", shape, FALSE, Missing, <<>>)

\* the response the transport gives to the n-th request of a walk: the script's
\* n-th entry, and its last entry again to every request after the script's end
ResponseTo(walk_script, n) ==
    walk_script[IF n <= Len(walk_script) THEN n ELSE Len(walk_script)]

-----------------------------------------------------------------------------
(* _get_provider_slots_for_date: one iteration of `while more`             *)

FacilityDateTimeSlot(facility_id, date, time) ==
    [facility_id |-> facility_id, date |-> date, time |-> time]

\* the list built by the `for appt in appts` loop
RECURSIVE BinAppts(_, _)
BinAppts(provider, appts) ==
    IF appts = <<>> THEN <<>>
    ELSE <<FacilityDateTimeSlot(provider.facility_id, Head(appts).date,
                                bin_time(Head(appts).time, default_minutes))>>
         \o BinAppts(provider, Tail(appts))

\* IterationRaises, escalating a non-success status as an error
IterationRaises_FailRaises(r) ==
    IF r.kind = "raise" THEN "RequestException"
    ELSE IF r.status # "success" THEN "KeyError"
    ELSE IF r.shape # "full" THEN "KeyError"
    ELSE IF r.more /\ r.next.k = "missing" THEN "KeyError"
    ELSE IF \E i \in 1..Len(r.slots) : bin_time_raises(r.slots[i].time) THEN "ValueError"
    ELSE ""

\* IterationRaises, reading the response with .get() defaults: no KeyError
IterationRaises_ShapeTolerated(r) ==
    IF r.kind = "raise" THEN "RequestException"
    ELSE IF \E i \in 1..Len(r.slots) : bin_time_raises(r.slots[i].time) THEN "ValueError"
    ELSE ""

\* the exception one iteration ends with, "" when it raises none
IterationRaises(r) ==
    IF r.kind = "raise" THEN "RequestException"
    ELSE IF r.status = "missing" THEN "KeyError"
    ELSE IF r.status # "success" THEN ""
    ELSE IF r.shape # "full" THEN "KeyError"
    ELSE IF r.more /\ r.next.k = "missing" THEN "KeyError"
    ELSE IF \E i \in 1..Len(r.slots) : bin_time_raises(r.slots[i].time) THEN "ValueError"
    ELSE ""

\* `if not j['status'] == 'success': break`
IterationBreaks(r) == r.status # "success"

\* AfterPage, with the appt loop skipped on the page that ends the walk
AfterPage_DropsLastPage(w, provider, r) ==
    [w EXCEPT !.more = r.more,
              !.start_time = IF r.more THEN r.next ELSE @,
              !.time_slots = IF r.more THEN @ \o BinAppts(provider, r.slots) ELSE @]

\* AfterPage, with the payload's start_time left as it was
AfterPage_KeepsStartTime(w, provider, r) ==
    [w EXCEPT !.more = r.more,
              !.time_slots = @ \o BinAppts(provider, r.slots)]

\* the walk's locals after an iteration that neither raises nor breaks
AfterPage(w, provider, r) ==
    [w EXCEPT !.more = r.more,
              !.start_time = IF r.more THEN r.next ELSE @,
              !.time_slots = @ \o BinAppts(provider, r.slots)]

-----------------------------------------------------------------------------
(* _get_provider_slots: the call a future runs                             *)

\* locals of _get_provider_slots_for_date at the top of `while more`
NewWalk(w) ==
    [w EXCEPT !.wpc = "send", !.more = TRUE, !.start_time = Str(earliest_time),
              !.time_slots = <<>>, !.nreq = 0]

\* a submitted call that no worker thread has picked up yet
QueuedTask ==
    [st |-> "queued", day |-> 0, wpc |-> "send", more |-> TRUE,
     start_time |-> Str(earliest_time), time_slots |-> <<>>, slots |-> <<>>,
     nreq |-> 0, exc |-> ""]

\* WalkReturns, with the date's result put in front of the slots so far
WalkReturns_Prepends(w) ==
    LET done == [w EXCEPT !.slots = w.time_slots \o @, !.day = @ + 1]
    IN  IF done.day = n_days THEN [done EXCEPT !.st = "returned"]
        ELSE NewWalk(done)

\* `return time_slots`, then `slots.extend(...)` and the next `day` of the loop
\* of _get_provider_slots, or its `return slots` after the last day
WalkReturns(w) ==
    LET done == [w EXCEPT !.slots = @ \o w.time_slots, !.day = @ + 1]
    IN  IF done.day = n_days THEN [done EXCEPT !.st = "returned"]
        ELSE NewWalk(done)

\* WalkRaises, with the exception swallowed and the slots so far returned
WalkRaises_ReturnsPartial(w, e) == [w EXCEPT !.st = "returned"]

\* an exception leaves both functions: the future holds it
WalkRaises(w, e) == [w EXCEPT !.st = "raised", !.exc = e]

Running == {t \in 1..Len(task) : task[t].st = "running"}
Queued == {t \in 1..Len(task) : task[t].st = "queued"}
Done == {t \in 1..Len(task) : task[t].st \in {"returned", "raised"}}

\* WorkerFree, for an executor that starts a thread per work item
WorkerFree_Unbounded == TRUE

\* a worker thread is free to take a work item off the executor's queue
WorkerFree == Cardinality(Running) < max_workers

-----------------------------------------------------------------------------
(* get_all_available_times                                                 *)

\* SetDefaultAppend, with the key's list replaced by the last provider merged
SetDefaultAppend_Overwrites(d, slot, provider) ==
    IF slot \in DOMAIN d THEN [d EXCEPT ![slot] = <<provider>>]
    ELSE d @@ (slot :> <<provider>>)

\* slots_dict.setdefault(slot, []).append(provider)
SetDefaultAppend(d, slot, provider) ==
    IF slot \in DOMAIN d THEN [d EXCEPT ![slot] = Append(@, provider)]
    ELSE d @@ (slot :> <<provider>>)

\* providers = self.get_providers(); the submit loop runs no iteration on an empty list
GetProviders ==
    /\ mainpc = "get_providers"
    /\ providers' = directory
    /\ mainpc' = IF Len(directory) = 0 THEN "collect" ELSE "submit"
    /\ UNCHANGED <<sess_headers, directory, script, n_days, submitted, task, reqs, walks,
                   yielded, cur, rest, slots_dict,
                   nabberVars, otherVars>>

\* one iteration of `for provider in providers`: executor.submit and futures[f] = provider
Submit ==
    /\ mainpc = "submit"
    /\ submitted < Len(providers)
    /\ submitted' = submitted + 1
    /\ task' = Append(task, QueuedTask)
    /\ reqs' = Append(reqs, <<>>)
    /\ walks' = Append(walks, <<>>)
    /\ mainpc' = IF submitted + 1 = Len(providers) THEN "collect" ELSE "submit"
    /\ UNCHANGED <<sess_headers, directory, script, n_days, providers, yielded, cur, rest, slots_dict,
                   nabberVars, otherVars>>

\* a worker thread takes the oldest queued work item and enters _get_provider_slots
Start(t) ==
    /\ t \in Queued
    /\ \A u \in Queued : t <= u
    /\ WorkerFree
    /\ task' = [task EXCEPT ![t] =
                    IF n_days = 0 THEN [@ EXCEPT !.st = "returned"]
                    ELSE [NewWalk(@) EXCEPT !.st = "running"]]
    /\ UNCHANGED <<sess_headers, directory, script, n_days, mainpc, providers, submitted, reqs, walks,
                   yielded, cur, rest, slots_dict,
                   nabberVars, otherVars>>

\* self.sess.post(...): the request of this iteration leaves
SendRequest(t) ==
    /\ t \in Running
    /\ task[t].wpc = "send"
    /\ task[t].nreq < MaxRequests
    /\ task' = [task EXCEPT ![t].wpc = "wait", ![t].nreq = @ + 1]
    /\ reqs' = [reqs EXCEPT ![t] =
                    Append(@, [npi |-> providers[t].provider_npi,
                               facility_id |-> providers[t].facility_id,
                               appt_date |-> task[t].day,
                               start_time |-> task[t].start_time])]
    /\ UNCHANGED <<sess_headers, directory, script, n_days, mainpc, providers, submitted, walks,
                   yielded, cur, rest, slots_dict,
                   nabberVars, otherVars>>

\* RecvResponse, for walks that keep their payload in one dict of the instance:
\* the start_time a walk stores is the start_time of every running walk
RecvResponse_SharedPayload(t) ==
    /\ t \in Running
    /\ task[t].wpc = "wait"
    /\ LET w == task[t]
           r == ResponseTo(script[t][w.day + 1], w.nreq)
           e == IterationRaises(r)
           after == AfterPage(w, providers[t], r)
           ends == e = "" /\ (IterationBreaks(r) \/ ~after.more)
           last == IF IterationBreaks(r) THEN w ELSE after
       IN  /\ task' = [u \in DOMAIN task |->
                          IF u = t
                          THEN IF e # "" THEN WalkRaises(w, e)
                               ELSE IF ends THEN WalkReturns(last)
                               ELSE [after EXCEPT !.wpc = "send"]
                          ELSE IF u \in Running /\ e = "" /\ ~ends
                          THEN [task[u] EXCEPT !.start_time = after.start_time]
                          ELSE task[u]]
           /\ walks' = [walks EXCEPT ![t] =
                          IF ends
                          THEN Append(@, [date |-> w.day, result |-> last.time_slots,
                                          nreq |-> w.nreq])
                          ELSE @]
    /\ UNCHANGED <<sess_headers, directory, script, n_days, mainpc, providers, submitted, reqs,
                   yielded, cur, rest, slots_dict,
                   nabberVars, otherVars>>

\* the response arrives and the rest of the iteration runs
RecvResponse(t) ==
    /\ t \in Running
    /\ task[t].wpc = "wait"
    /\ LET w == task[t]
           r == ResponseTo(script[t][w.day + 1], w.nreq)
           e == IterationRaises(r)
           after == AfterPage(w, providers[t], r)
           ends == e = "" /\ (IterationBreaks(r) \/ ~after.more)
           last == IF IterationBreaks(r) THEN w ELSE after
       IN  /\ task' = [task EXCEPT ![t] =
                          IF e # "" THEN WalkRaises(w, e)
                          ELSE IF ends THEN WalkReturns(last)
                          ELSE [after EXCEPT !.wpc = "send"]]
           /\ walks' = [walks EXCEPT ![t] =
                          IF ends
                          THEN Append(@, [date |-> w.day, result |-> last.time_slots,
                                          nreq |-> w.nreq])
                          ELSE @]
    /\ UNCHANGED <<sess_headers, directory, script, n_days, mainpc, providers, submitted, reqs,
                   yielded, cur, rest, slots_dict,
                   nabberVars, otherVars>>

\* Collect, for a loop that takes the next finished future while the slots of the
\* one before are still being merged
Collect_Preempts(t) ==
    /\ mainpc = "collect"
    /\ t \in Done \ yielded
    /\ yielded' = yielded \cup {t}
    /\ IF task[t].st = "raised"
       THEN /\ mainpc' = "raised"
            /\ UNCHANGED <<cur, rest>>
       ELSE /\ mainpc' = "collect"
            /\ cur' = IF task[t].slots = <<>> THEN 0 ELSE t
            /\ rest' = task[t].slots
    /\ UNCHANGED <<sess_headers, directory, script, n_days, providers, submitted, task, reqs, walks,
                   slots_dict,
                   nabberVars, otherVars>>

\* as_completed yields a finished future (any finished one: those already finished
\* when the loop starts come in no particular order); `slots = f.result()` returns
\* the call's list or raises the call's exception, which nothing here catches
Collect(t) ==
    /\ mainpc = "collect"
    /\ cur = 0
    /\ t \in Done \ yielded
    /\ yielded' = yielded \cup {t}
    /\ IF task[t].st = "raised"
       THEN /\ mainpc' = "raised"
            /\ UNCHANGED <<cur, rest>>
       ELSE /\ mainpc' = "collect"
            /\ cur' = IF task[t].slots = <<>> THEN 0 ELSE t
            /\ rest' = task[t].slots
    /\ UNCHANGED <<sess_headers, directory, script, n_days, providers, submitted, task, reqs, walks,
                   slots_dict,
                   nabberVars, otherVars>>

\* one iteration of `for slot in slots`
MergeSlot ==
    /\ mainpc = "collect"
    /\ cur # 0
    /\ slots_dict' = SetDefaultAppend(slots_dict, Head(rest), providers[cur])
    /\ rest' = Tail(rest)
    /\ cur' = IF Len(rest) = 1 THEN 0 ELSE cur
    /\ UNCHANGED <<sess_headers, directory, script, n_days, mainpc, providers, submitted, task, reqs,
                   walks, yielded,
                   nabberVars, otherVars>>

\* Return, for a collection loop that is left after any iteration
Return_Early ==
    /\ mainpc = "collect"
    /\ cur = 0
    /\ mainpc' = "returned"
    /\ UNCHANGED <<sess_headers, directory, script, n_days, providers, submitted, task, reqs, walks,
                   yielded, cur, rest, slots_dict,
                   nabberVars, otherVars>>

\* as_completed is exhausted: `return slots_dict`
Return ==
    /\ mainpc = "collect"
    /\ cur = 0
    /\ yielded = 1..Len(providers)
    /\ mainpc' = "returned"
    /\ UNCHANGED <<sess_headers, directory, script, n_days, providers, submitted, task, reqs, walks,
                   yielded, cur, rest, slots_dict,
                   nabberVars, otherVars>>

Next ==
    \/ GetProviders
    \/ Submit
    \/ \E t \in 1..Len(task) : Start(t)
    \/ \E t \in 1..Len(task) : SendRequest(t)
    \/ \E t \in 1..Len(task) : RecvResponse(t)
    \/ \E t \in 1..Len(task) : Collect(t)
    \/ MergeSlot
    \/ Return


-----------------------------------------------------------------------------
(* The inputs: provider directories and transport scripts                  *)

\* the i-th entry of the provider list; the NPI is written as the number i
Provider(i) == [provider_npi |-> i, facility_id |-> "1"]
Dir(n) == [i \in 1..n |-> Provider(i)]

t0905 == T("0", "9", "0", "5", "0", "0")
t0912 == T("0", "9", "1", "2", "0", "0")
t0910 == T("0", "9", "1", "0", "0", "0")
t1240 == T("1", "2", "4", "0", "0", "0")
t1245 == T("1", "2", "4", "5", "0", "0")
tBad == <<"0", "9", ":", "x", "5", ":", "0", "0">>

\* pages that announce a further page
MorePages(d) ==
    { Page(TRUE, Str(t0910), <<Appt(d, t0905)>>),
      Page(TRUE, Str(t1245), <<Appt(d, t1240), Appt(d, t0912)>>),
      Page(TRUE, None, <<>>) }

\* responses after which no iteration follows
LastResponses(d) ==
    { Page(FALSE, Missing, <<>>),
      Page(FALSE, None, <<Appt(d, t1240)>>),
      Page(FALSE, None, <<Appt(d, tBad)>>),
      Page(TRUE, Missing, <<Appt(d, t0905)>>),
      Fail("full"), Fail("no_response"),
      NoStatus, NoShape("no_response"), NoShape("no_appt_more_slots"), NoShape("no_more"),
      TransportError }

SeqsUpTo(S, n) == UNION {[1..k -> S] : k \in 0..n}

\* k "more" pages and a last response, k <= MaxMorePages
EndingScripts(d) ==
    {pre \o <<last>> : pre \in SeqsUpTo(MorePages(d), MaxMorePages), last \in LastResponses(d)}

\* a server that answers every request with the same "more" page
StallingScripts(d) == {<<p>> : p \in MorePages(d)}

\* the session as __init__ leaves it: prepare_api_session has put the token of the
\* practice page and the two content headers on it
csrf_token == "_csrf"
ApiHeaders ==
    [Accept |-> "application/json,*/*;q=0.5",
     ContentType |-> "application/x-www-form-urlencoded; charset=UTF-8",
     XCsrfToken |-> csrf_token]

\* nothing calls bin_time on its own
BinIdle ==
    /\ bin_arg = <<>>
    /\ bin_minutes = default_minutes
    /\ bin_pc = "idle"
    /\ bin_hist = <<>>

\* local `j` before its first assignment
Unbound == [kind |-> "unbound"]

\* no stage 3 is at work
Stage3Idle ==
    /\ infos = <<>>
    /\ s3_script = <<>>
    /\ s3pc = "idle"
    /\ s3_futures = <<>>
    /\ s3_yielded = {}
    /\ s3_j = Unbound
    /\ s3_out = <<>>
    /\ s3_for = <<>>

OthersIdle == BinIdle /\ Stage3Idle /\ prov_info_given = <<>>

\* no PAAScheduleNabber is at work
NabberIdle ==
    /\ workers = 0
    /\ more_script = <<>>
    /\ prov_info_list = <<>>
    /\ s4pc = "idle"
    /\ s4_submitted = 0
    /\ fill = <<>>
    /\ fill_reqs = <<>>
    /\ s4_yielded = {}
    /\ prov_info_filled = 0
    /\ out = <<>>
    /\ errors = <<>>

InitRun ==
    /\ NabberIdle
    /\ OthersIdle
    /\ sess_headers = ApiHeaders
    /\ mainpc = "get_providers"
    /\ providers = <<>>
    /\ submitted = 0
    /\ task = <<>>
    /\ reqs = <<>>
    /\ walks = <<>>
    /\ yielded = {}
    /\ cur = 0
    /\ rest = <<>>
    /\ slots_dict = <<>>

\* one provider, one day, every script
InitWalk ==
    /\ directory = Dir(1)
    /\ n_days = 1
    /\ script \in {<<<<s>>>> : s \in EndingScripts(0) \cup StallingScripts(0)}
    /\ InitRun

SpecWalk == InitWalk /\ [][Next]_vars


\* what the transport answers to one provider's walks, day by day
Healthy(days) == [i \in 1..days |-> <<Page(FALSE, None, <<Appt(i - 1, t0905)>>)>>]
TwoPages(days) ==
    [i \in 1..days |-> <<Page(TRUE, Str(t0910), <<Appt(i - 1, t0905), Appt(i - 1, t0912)>>),
                         Page(FALSE, None, <<Appt(i - 1, t0910)>>)>>]
NoAvailability(days) == [i \in 1..days |-> <<Fail("no_response")>>]
FailsOn(days, e) == [Healthy(days) EXCEPT ![e] = <<TransportError>>]

ProviderScripts(days) ==
    {Healthy(days), TwoPages(days), NoAvailability(days)}
        \cup {FailsOn(days, e) : e \in 1..days}

\* up to MaxProviders providers, up to MaxDays days
InitFanOut ==
    /\ directory \in {Dir(n) : n \in 0..MaxProviders}
    /\ n_days \in 1..MaxDays
    /\ script \in [1..Len(directory) -> ProviderScripts(n_days)]
    /\ InitRun

Spec == InitFanOut /\ [][Next]_vars

\* one provider more than the pool has worker threads
PoolProviders == max_workers + 1

\* a directory larger than the pool, one day, one page each; the last provider has a slot
InitPool ==
    /\ directory = Dir(PoolProviders)
    /\ n_days = 1
    /\ script = [t \in 1..PoolProviders |->
                    IF t = PoolProviders THEN Healthy(1) ELSE NoAvailability(1)]
    /\ InitRun

SpecPool == InitPool /\ [][Next]_vars


-----------------------------------------------------------------------------
(* Vocabulary of the properties                                            *)

Tasks == 1..Len(task)
Raised == {t \in Tasks : task[t].st = "raised"}
Returned == {t \in Tasks : task[t].st = "returned"}

\* the calling thread has left get_all_available_times
RunEnded == mainpc \in {"returned", "raised"}

\* every future was submitted and has finished
AllDone == submitted = Len(providers) /\ mainpc # "get_providers" /\ Done = Tasks

\* the (slot, provider) pairs recorded in an index
Pairs(d) == UNION {{<<k, d[k][i]>> : i \in 1..Len(d[k])} : k \in DOMAIN d}

\* the (slot, provider) pairs of the futures in S
SlotsOf(S) == UNION {{<<task[t].slots[i], providers[t]>> : i \in 1..Len(task[t].slots)} : t \in S}

\* the slots of a sequence of pages, binned, in page order
RECURSIVE BinPages(_, _)
BinPages(provider, pages) ==
    IF pages = <<>> THEN <<>>
    ELSE BinAppts(provider, Head(pages).slots) \o BinPages(provider, Tail(pages))

-----------------------------------------------------------------------------
(* Fan-out run                                                             *)

\* C1: failure isolation. Whatever futures raise, get_all_available_times does not
\* raise to its caller, and the index it returns holds exactly the slots of the
\* futures that did not raise (the empty index when all of them raised).
C1_FailureIsolation ==
    /\ mainpc # "raised"
    /\ mainpc = "returned" => Pairs(slots_dict) = SlotsOf(Returned)

\* The statement of C2 for get_all_available_times: when exactly one of the N
\* futures raised, the collection loop ends having taken one result from each of
\* the N futures: it returns, and no future is left unyielded.
C2_ResultAccounting_Retriever ==
    (RunEnded /\ AllDone /\ Cardinality(Raised) = 1)
        => (mainpc = "returned" /\ yielded = Tasks)

\* C4: deduplication. No provider occurs twice in the provider list of a key of
\* the index, in any state of the merge.
C4_Dedup ==
    \A k \in DOMAIN slots_dict :
        \A i, j \in 1..Len(slots_dict[k]) : i # j => slots_dict[k][i] # slots_dict[k][j]


-----------------------------------------------------------------------------
(* Continuation walker                                                     *)

\* the script of the walk of future t for day d
WalkScript(t, d) == script[t][d + 1]

\* the page requests future t has sent for day d
NumRequests(t, d) == Cardinality({i \in 1..Len(reqs[t]) : reqs[t][i].appt_date = d})

\* the first n responses of a walk
Responses(s, n) == [j \in 1..n |-> ResponseTo(s, j)]

\* future t is inside its walk of day d, or left it by an exception
InWalk(t, d) == task[t].st \in {"running", "raised"} /\ task[t].day = d

\* the responses of its current walk that future t has processed
Processed(t) ==
    IF task[t].st = "running" /\ task[t].wpc = "wait" THEN 1..(task[t].nreq - 1)
    ELSE IF task[t].st \in {"running", "raised"} THEN 1..task[t].nreq
    ELSE {}

\* a response with status success and every field the walker reads, whose times parse
WellFormedPage(r) ==
    /\ r.kind = "json" /\ r.status = "success" /\ r.shape = "full"
    /\ r.more => r.next.k # "missing"
    /\ \A i \in 1..Len(r.slots) : ~bin_time_raises(r.slots[i].time)

\* k pages with more = true, then one page with more = false
MoreThenLast(s) ==
    \A i \in 1..Len(s) : WellFormedPage(s[i]) /\ (s[i].more <=> i < Len(s))

\* C5: page count. Against a transport that answers more = true k times and then
\* more = false (status success throughout), a walk does not raise, sends at most
\* k+1 requests, and returns after exactly k+1 requests with the binned slots of
\* all k+1 pages in page order (k = 0..MaxMorePages).
C5_PageCount ==
    \A t \in Tasks : \A d \in 0..(n_days - 1) :
        MoreThenLast(WalkScript(t, d)) =>
            /\ InWalk(t, d) => task[t].st = "running" /\ NumRequests(t, d) <= Len(WalkScript(t, d))
            /\ \A i \in 1..Len(walks[t]) :
                   walks[t][i].date = d =>
                       /\ NumRequests(t, d) = Len(WalkScript(t, d))
                       /\ walks[t][i].result = BinPages(providers[t], WalkScript(t, d))

\* C5 witness: a walk over 5 "more" pages and a last page has returned its slots
C5_Witness ==
    \E t \in Tasks :
        /\ MoreThenLast(WalkScript(t, 0)) /\ Len(WalkScript(t, 0)) = 6
        /\ Len(walks[t]) = 1 /\ NumRequests(t, 0) = 6
        /\ Len(walks[t][1].result) >= 6

\* a response whose status is present and is not success
NonSuccess(r) == r.kind = "json" /\ r.status \notin {"success", "missing"}

\* C6: a non-success status ends the walk normally. A walk never goes on, and never
\* raises, after a response with a non-success status: that response is the walk's
\* last, and the walk returns the binned slots of the pages before it (the empty
\* list after one request when it is the first response).
C6_NonSuccessEndsWalk ==
    \A t \in Tasks :
        /\ \A j \in Processed(t) : ~NonSuccess(ResponseTo(WalkScript(t, task[t].day), j))
        /\ \A i \in 1..Len(walks[t]) :
               LET d == walks[t][i].date
                   n == NumRequests(t, d)
               IN  \A j \in 1..n :
                       NonSuccess(ResponseTo(WalkScript(t, d), j)) =>
                           /\ j = n
                           /\ walks[t][i].result =
                                  BinPages(providers[t], Responses(WalkScript(t, d), n - 1))

\* C6 witness: a walk returned the slots of its first pages after a non-success status
C6_Witness ==
    \E t \in Tasks :
        /\ Len(walks[t]) = 1 /\ NumRequests(t, 0) >= 2
        /\ NonSuccess(ResponseTo(WalkScript(t, 0), NumRequests(t, 0)))
        /\ walks[t][1].result # <<>>

\* C7: bounded pagination. A walk sends at most 50 page requests (the iteration
\* cap), whatever the server answers.
C7_BoundedPagination ==
    \A t \in Tasks : \A d \in 0..(n_days - 1) : NumRequests(t, d) <= 50

\* a response the walker cannot read: the transport raised, or a key is missing
Unreadable(r) == r.kind = "raise" \/ r.status = "missing" \/ r.shape # "full"

\* future t left its walk of day d by an exception on response j
RaisedOn(t, d, j) == task[t].st = "raised" /\ task[t].day = d /\ task[t].nreq = j

\* C8 as claimed: every response that the transport raised on, or that lacks the
\* status, response, appt_more_slots or more field, ends the walk in an error,
\* with no further request.
C8_WalkerFailure_AsClaimed ==
    \A t \in Tasks : \A d \in 0..(n_days - 1) :
        \A j \in 1..NumRequests(t, d) :
            (Unreadable(ResponseTo(WalkScript(t, d), j))
                /\ (InWalk(t, d) => j \in Processed(t)))
                => RaisedOn(t, d, j)

\* as Unreadable, a missing response/appt_more_slots/more counting only under
\* status success
UnreadableSuccess(r) ==
    r.kind = "raise" \/ r.status = "missing" \/ (r.status = "success" /\ r.shape # "full")

\* C8 amended: every response that the transport raised on, that lacks the status
\* field, or that has status success and lacks the response, appt_more_slots or
\* more field, ends the walk in an exception (the transport's, or KeyError), with
\* no slot list returned for that date and no further request.
C8_WalkerFailure ==
    \A t \in Tasks : \A d \in 0..(n_days - 1) :
        \A j \in 1..NumRequests(t, d) :
            LET r == ResponseTo(WalkScript(t, d), j)
            IN  (UnreadableSuccess(r) /\ (InWalk(t, d) => j \in Processed(t)))
                    => /\ RaisedOn(t, d, j)
                       /\ task[t].exc = IF r.kind = "raise" THEN "RequestException"
                                        ELSE "KeyError"
                       /\ \A i \in 1..Len(walks[t]) : walks[t][i].date # d

\* C8 witness: a walk raised KeyError on the response to its third request
C8_Witness ==
    \E t \in Tasks :
        /\ RaisedOn(t, 0, 3)
        /\ task[t].exc = "KeyError"
        /\ ResponseTo(WalkScript(t, 0), 3).shape # "full"


-----------------------------------------------------------------------------
(* Worker pool and task matrix                                             *)

\* C9: bounded concurrency. At most max_workers futures are executing (started and
\* not finished) in any state, however many were submitted.
C9_BoundedConcurrency == Cardinality(Running) <= max_workers

\* C9 witness: every worker thread is busy and a submitted future waits in the queue
C9_Witness == Cardinality(Running) = max_workers /\ Queued # {}

\* the submit loop is over
SubmitDone == mainpc \in {"collect", "returned", "raised"}

\* the dates of the walks future t has completed, in order
WalkDates(t) == [i \in 1..Len(walks[t]) |-> walks[t][i].date]

\* the results of the walks future t has completed, concatenated
RECURSIVE ConcatResults(_)
ConcatResults(ws) ==
    IF ws = <<>> THEN <<>> ELSE Head(ws).result \o ConcatResults(Tail(ws))

-----------------------------------------------------------------------------
(* src/paa.py: PAAScheduleNabber, stage 4                                  *)

\* PAAScheduleNabber(workers=8)
default_workers == 8

\* ProviderInfo objects handed to stage 4
MaxProvInfos == 3
\* dates in the schedule of a ProviderInfo
NabberDays == 2

\* s.rsplit(':', 1)[0]: s up to its last ":", all of s when it has none
RECURSIVE LastColon(_, _)
LastColon(s, i) == IF i = 0 THEN 0 ELSE IF s[i] = ":" THEN i ELSE LastColon(s, i - 1)

RsplitHead(s) ==
    IF LastColon(s, Len(s)) = 0 THEN s ELSE SubSeq(s, 1, LastColon(s, Len(s)) - 1)

\* truth value of a str or None
Truthy(x) == x.k = "str" /\ x.v # <<>>

\* _extract_more_time_slots: res_json['response'] must exist, all else is .get()
ExtractRaises(r) ==
    IF r.kind = "raise" THEN "RequestException"
    ELSE IF r.shape = "no_response" THEN "KeyError"
    ELSE ""

ExtractTimeSlots(r) ==
    IF r.shape = "no_appt_more_slots" THEN <<>>
    ELSE [i \in 1..Len(r.slots) |-> RsplitHead(r.slots[i].time)]

ExtractNextTime(r) ==
    IF r.shape = "no_appt_more_slots" \/ r.next.k = "missing" THEN None ELSE r.next

\* the queue built by `for date, next_time in prov_info.next_slot.items()`
RECURSIVE InitialQueue(_, _)
InitialQueue(next_slot, i) ==
    IF i > Len(next_slot) THEN <<>>
    ELSE (IF Truthy(next_slot[i]) THEN <<[date |-> i - 1, next_time |-> next_slot[i]]>>
          ELSE <<>>)
         \o InitialQueue(next_slot, i + 1)

QueuedFill ==
    [st |-> "queued", wpc |-> "send", queue |-> <<>>, date |-> 0, next_time |-> None,
     exc |-> ""]

Fills == 1..Len(fill)
FillRunning == {f \in Fills : fill[f].st = "running"}
FillQueued == {f \in Fills : fill[f].st = "queued"}
FillDone == {f \in Fills : fill[f].st \in {"returned", "raised"}}
FillRaised == {f \in Fills : fill[f].st = "raised"}

\* ThreadPoolExecutor(max_workers=self.workers)
S4WorkerFree == Cardinality(FillRunning) < workers

\* the requests future f has sent for date d
FillRequests(f, d) == Cardinality({i \in 1..Len(fill_reqs[f]) : fill_reqs[f][i].appt_date = d})

\* one iteration of `for prov_info in prov_info_list`
S4Submit ==
    /\ s4pc = "submit"
    /\ s4_submitted < Len(prov_info_list)
    /\ s4_submitted' = s4_submitted + 1
    /\ fill' = Append(fill, QueuedFill)
    /\ fill_reqs' = Append(fill_reqs, <<>>)
    /\ s4pc' = IF s4_submitted + 1 = Len(prov_info_list) THEN "collect" ELSE "submit"
    /\ UNCHANGED <<workers, more_script, prov_info_list, s4_yielded, prov_info_filled,
                   out, errors, retrieverVars, otherVars>>

\* a worker thread enters _fill_more_time_slots and reaches `while queue`
FillStart(f) ==
    /\ f \in FillQueued
    /\ \A g \in FillQueued : f <= g
    /\ S4WorkerFree
    /\ LET q == InitialQueue(prov_info_list[f].next_slot, 1)
       IN  fill' = [fill EXCEPT ![f].queue = q,
                                ![f].st = IF q = <<>> THEN "returned" ELSE "running"]
    /\ UNCHANGED <<workers, more_script, prov_info_list, s4pc, s4_submitted, fill_reqs,
                   s4_yielded, prov_info_filled, out, errors, retrieverVars, otherVars>>

\* FillSend, taking the newest entry of the queue: queue.pop()
FillSend_PopsLast(f) ==
    /\ f \in FillRunning
    /\ fill[f].wpc = "send"
    /\ Len(fill_reqs[f]) < MaxRequests
    /\ LET q == fill[f].queue
           last == q[Len(q)]
       IN  /\ fill' = [fill EXCEPT ![f].wpc = "wait",
                                   ![f].date = last.date,
                                   ![f].next_time = last.next_time,
                                   ![f].queue = SubSeq(q, 1, Len(q) - 1)]
           /\ fill_reqs' = [fill_reqs EXCEPT ![f] =
                               Append(@, [npi |-> prov_info_list[f].npi,
                                          facility_id |-> prov_info_list[f].facility,
                                          appt_date |-> last.date,
                                          start_time |-> last.next_time])]
    /\ UNCHANGED <<workers, more_script, prov_info_list, s4pc, s4_submitted,
                   s4_yielded, prov_info_filled, out, errors, retrieverVars, otherVars>>

\* queue.pop(0) and self.sess.post(...)
FillSend(f) ==
    /\ f \in FillRunning
    /\ fill[f].wpc = "send"
    /\ Len(fill_reqs[f]) < MaxRequests
    /\ fill' = [fill EXCEPT ![f].wpc = "wait",
                            ![f].date = Head(fill[f].queue).date,
                            ![f].next_time = Head(fill[f].queue).next_time,
                            ![f].queue = Tail(@)]
    /\ fill_reqs' = [fill_reqs EXCEPT ![f] =
                        Append(@, [npi |-> prov_info_list[f].npi,
                                   facility_id |-> prov_info_list[f].facility,
                                   appt_date |-> Head(fill[f].queue).date,
                                   start_time |-> Head(fill[f].queue).next_time])]
    /\ UNCHANGED <<workers, more_script, prov_info_list, s4pc, s4_submitted,
                   s4_yielded, prov_info_filled, out, errors, retrieverVars, otherVars>>

\* the response arrives; the rest of the iteration and the `while queue` test
FillRecv(f) ==
    /\ f \in FillRunning
    /\ fill[f].wpc = "wait"
    /\ LET d == fill[f].date
           r == ResponseTo(more_script[f][d + 1], FillRequests(f, d))
           e == ExtractRaises(r)
           nxt == ExtractNextTime(r)
           q == IF Truthy(nxt) THEN Append(fill[f].queue, [date |-> d, next_time |-> nxt])
                ELSE fill[f].queue
       IN  IF e # ""
           THEN /\ fill' = [fill EXCEPT ![f].st = "raised", ![f].exc = e]
                /\ UNCHANGED prov_info_list
           ELSE /\ prov_info_list' =
                       [prov_info_list EXCEPT ![f].time_slots[d + 1] = @ \o ExtractTimeSlots(r),
                                              ![f].next_slot[d + 1] = nxt]
                /\ fill' = [fill EXCEPT ![f].queue = q, ![f].wpc = "send",
                                        ![f].st = IF q = <<>> THEN "returned" ELSE "running"]
    /\ UNCHANGED <<workers, more_script, s4pc, s4_submitted, fill_reqs,
                   s4_yielded, prov_info_filled, out, errors, retrieverVars, otherVars>>

\* one iteration of the as_completed loop: the try/except around f.result(), then
\* out.append(prov_info_filled), an UnboundLocalError while that name is unbound
S4Collect(f) ==
    /\ s4pc = "collect"
    /\ f \in FillDone \ s4_yielded
    /\ s4_yielded' = s4_yielded \cup {f}
    /\ errors' = IF fill[f].st = "raised" THEN Append(errors, f) ELSE errors
    /\ prov_info_filled' = IF fill[f].st = "raised" THEN prov_info_filled ELSE f
    /\ IF prov_info_filled' = 0
       THEN s4pc' = "raised" /\ UNCHANGED out
       ELSE s4pc' = "collect" /\ out' = Append(out, prov_info_filled')
    /\ UNCHANGED <<workers, more_script, prov_info_list, s4_submitted, fill, fill_reqs,
                   retrieverVars, otherVars>>

\* `return out`
S4Return ==
    /\ s4pc = "collect"
    /\ s4_yielded = 1..Len(prov_info_list)
    /\ s4pc' = "returned"
    /\ UNCHANGED <<workers, more_script, prov_info_list, s4_submitted, fill, fill_reqs,
                   s4_yielded, prov_info_filled, out, errors, retrieverVars, otherVars>>

NextStage4 ==
    \/ S4Submit
    \/ \E f \in 1..Len(fill) : FillStart(f)
    \/ \E f \in 1..Len(fill) : FillSend(f)
    \/ \E f \in 1..Len(fill) : FillRecv(f)
    \/ \E f \in 1..Len(fill) : S4Collect(f)
    \/ S4Return

\* no PAAScheduleRetriever is at work
RetrieverIdle ==
    /\ sess_headers = <<>>
    /\ directory = <<>>
    /\ script = <<>>
    /\ n_days = 0
    /\ mainpc = "idle"
    /\ providers = <<>>
    /\ submitted = 0
    /\ task = <<>>
    /\ reqs = <<>>
    /\ walks = <<>>
    /\ yielded = {}
    /\ cur = 0
    /\ rest = <<>>
    /\ slots_dict = <<>>

t0900 == <<"0", "9", ":", "0", "0">>

\* a ProviderInfo as stage 3 leaves it, and the transport's answers to its requests
ProvInfo(i, next_slot) ==
    [npi |-> i, facility |-> 13,
     time_slots |-> [d \in 1..NabberDays |-> <<t0900>>],
     next_slot |-> next_slot]

NoNext == [d \in 1..NabberDays |-> None]
NextOnFirst == [NoNext EXCEPT ![1] = Str(t0910)]

\* nothing more to fetch; one more page for the first date; the transport raises
NoMore == [next_slot |-> NoNext, script |-> [d \in 1..NabberDays |-> <<TransportError>>]]
OneMore ==
    [next_slot |-> NextOnFirst,
     script |-> [d \in 1..NabberDays |-> <<Page(FALSE, None, <<Appt(d - 1, t0912)>>)>>]]
Unreachable ==
    [next_slot |-> NextOnFirst, script |-> [d \in 1..NabberDays |-> <<TransportError>>]]

Behaviours == {NoMore, OneMore, Unreachable}

InitStage4 ==
    /\ RetrieverIdle
    /\ BinIdle
    /\ Stage3Idle
    /\ workers \in {1, default_workers}
    /\ \E n \in 1..MaxProvInfos : \E b \in [1..n -> Behaviours] :
           /\ prov_info_list = [i \in 1..n |-> ProvInfo(i, b[i].next_slot)]
           /\ more_script = [i \in 1..n |-> b[i].script]
    /\ prov_info_given = prov_info_list
    /\ s4pc = "submit"
    /\ s4_submitted = 0
    /\ fill = <<>>
    /\ fill_reqs = <<>>
    /\ s4_yielded = {}
    /\ prov_info_filled = 0
    /\ out = <<>>
    /\ errors = <<>>

SpecStage4 == InitStage4 /\ [][NextStage4]_vars

\* the calling thread has left _stage_4_fill_more_times
S4Ended == s4pc \in {"returned", "raised"}

\* every future of stage 4 was submitted and has finished
S4AllDone == s4_submitted = Len(prov_info_list) /\ FillDone = Fills

\* how often x occurs in the sequence s
Count(s, x) == Cardinality({i \in 1..Len(s) : s[i] = x})

\* C2: result accounting (stage 4 of paa.py). When exactly one of the N futures
\* raised, the collection loop ends having produced N results, one per future:
\* it returns, the failure list holds the raised future once, and `out` holds the
\* ProviderInfo of each of the other N-1 futures exactly once and nothing else.
C2_ResultAccounting ==
    (S4Ended /\ S4AllDone /\ Cardinality(FillRaised) = 1) =>
        /\ s4pc = "returned"
        /\ Len(errors) + Len(out) = Len(fill)
        /\ \A f \in Fills :
               /\ Count(errors, f) = IF f \in FillRaised THEN 1 ELSE 0
               /\ Count(out, f) = IF f \in FillRaised THEN 0 ELSE 1

\* C3: failures are never discarded. When a run is over and every future has
\* finished, the failure list holds exactly one entry for each future that raised
\* and none for a future that returned.
C3_FailuresKept ==
    (S4Ended /\ S4AllDone) =>
        \A f \in Fills : Count(errors, f) = IF f \in FillRaised THEN 1 ELSE 0


-----------------------------------------------------------------------------
(* Merge of the results into the index                                     *)

\* C11: order-independent merge. Between two merges the index is a function of
\* the set of futures merged so far, whatever the order as_completed yielded them
\* in: its keys are the slots of those futures, and the providers under a key,
\* taken as a set, are the providers of the futures that returned that slot. So
\* every completion order of the same results ends with the same index.
C11_OrderIndependentMerge ==
    (mainpc \in {"collect", "returned"} /\ cur = 0) =>
        /\ DOMAIN slots_dict = {pr[1] : pr \in SlotsOf(yielded)}
        /\ \A k \in DOMAIN slots_dict :
               {slots_dict[k][i] : i \in 1..Len(slots_dict[k])}
                   = {pr[2] : pr \in {q \in SlotsOf(yielded) : q[1] = k}}

\* C11 witness: the run returned an index in which the second provider's future
\* was merged before the first's under a key they share
C11_Witness ==
    /\ mainpc = "returned" /\ Len(providers) = 2
    /\ \E k \in DOMAIN slots_dict :
           /\ Len(slots_dict[k]) = 2
           /\ slots_dict[k][1] = providers[2] /\ slots_dict[k][2] = providers[1]


-----------------------------------------------------------------------------
(* src/paa2.py: bin_time, called on its own                                *)

\* calls of bin_time a caller chains, each on the label the one before returned
MaxRebins == 2

\* the interval widths bin_time is called with
Widths == {5, 10, 15, 30, 60}

\* n in 0..99 written with two digits
TwoDigits(n) == <<Digits[(n \div 10) + 1], Digits[(n % 10) + 1]>>

\* "HH:MM:SS"
Clock(hh, mm, ss) == TwoDigits(hh) \o <<":">> \o TwoDigits(mm) \o <<":">> \o TwoDigits(ss)

\* the HH:MM:SS strings of the inputs: four hours, every minute, two seconds
ClockTimes == {Clock(hh, mm, ss) : hh \in {0, 9, 12, 23}, mm \in 0..59, ss \in {0, 59}}

\* strings that are not HH:MM:SS
MalformedTimes ==
    { tBad,
      <<"x", "x", ":", "5", "9", ":", "0", "0">>,    \* "xx:59:00"
      <<"1", "a", ":", "b", "0", ":", "0", "0">>,    \* "1a:b0:00"
      <<"0", "9">>,                                  \* "09"
      <<"0", "9", ":">>,                             \* "09:"
      <<":", "1", "5", ":", "0", "0">>,              \* ":15:00"
      <<" ", "9", ":", " ", "7", ":", "0", "0">>,    \* " 9: 7:00"
      <<"0", "9", ":", "-", "5", ":", "0", "0">> }   \* "09:-5:00"

\* the body of bin_time runs: it returns the label or raises ValueError
BinTime ==
    /\ bin_pc = "call"
    /\ IF bin_time_raises(bin_arg)
       THEN bin_pc' = "raised" /\ UNCHANGED bin_hist
       ELSE /\ bin_pc' = "returned"
            /\ bin_hist' = Append(bin_hist, [arg |-> bin_arg,
                                             label |-> bin_time(bin_arg, bin_minutes)])
    /\ UNCHANGED <<bin_arg, bin_minutes, retrieverVars, nabberVars, stage3Vars, prov_info_given>>

\* the caller passes the returned label to bin_time again, with the same minutes
Rebin ==
    /\ bin_pc = "returned"
    /\ Len(bin_hist) < MaxRebins
    /\ bin_arg' = bin_hist[Len(bin_hist)].label
    /\ bin_pc' = "call"
    /\ UNCHANGED <<bin_minutes, bin_hist, retrieverVars, nabberVars, stage3Vars, prov_info_given>>

NextBin == BinTime \/ Rebin

InitBin ==
    /\ RetrieverIdle
    /\ NabberIdle
    /\ Stage3Idle
    /\ prov_info_given = <<>>
    /\ bin_arg \in ClockTimes \cup MalformedTimes
    /\ bin_minutes \in Widths
    /\ bin_pc = "call"
    /\ bin_hist = <<>>

SpecBin == InitBin /\ [][NextBin]_vars

\* t is HH:MM:SS: two-digit fields, hour 00..23, minute and second 00..59
IsClock(t) ==
    /\ Len(t) = 8 /\ t[3] = ":" /\ t[6] = ":"
    /\ \A i \in {1, 2, 4, 5, 7, 8} : IsDigit(t[i])
    /\ 10 * DigitVal(t[1], 1) + DigitVal(t[2], 1) <= 23
    /\ DigitVal(t[4], 1) <= 5 /\ DigitVal(t[7], 1) <= 5

\* the minute of an HH:MM:SS string
MinuteOf(t) == 10 * DigitVal(t[4], 1) + DigitVal(t[5], 1)

\* C12: bucket label. For every HH:MM:SS string t and every width w in
\* {5, 10, 15, 30, 60}, bin_time(t, w) returns, and its label is the two hour
\* digits of t, a colon, and floor(MM / w) * w written with two digits; the
\* seconds are gone. "12:40:00", "00:07:00" and "23:59:59" at width 15 give
\* "12:30", "00:00" and "23:45".
C12_BucketLabel ==
    /\ (IsClock(bin_arg) /\ bin_hist = <<>>) => bin_pc = "call"
    /\ \A i \in 1..Len(bin_hist) :
           LET t == bin_hist[i].arg
               w == bin_minutes
               m_bin == (MinuteOf(t) \div w) * w
           IN  IsClock(t) =>
                   /\ bin_hist[i].label = <<t[1], t[2], ":">> \o TwoDigits(m_bin)
                   /\ (w = 15 /\ t = Clock(12, 40, 0)) => bin_hist[i].label = <<"1", "2", ":", "3", "0">>
                   /\ (w = 15 /\ t = Clock(0, 7, 0)) => bin_hist[i].label = <<"0", "0", ":", "0", "0">>
                   /\ (w = 15 /\ t = Clock(23, 59, 59)) => bin_hist[i].label = <<"2", "3", ":", "4", "5">>

\* C12 witness: bin_time returned "00:05" for "00:07:59" at width 5
C12_Witness ==
    /\ bin_minutes = 5 /\ Len(bin_hist) = 1
    /\ bin_hist[1].arg = Clock(0, 7, 59)
    /\ bin_hist[1].label = <<"0", "0", ":", "0", "5">>


\* C13: bucketing is idempotent. Whenever bin_time(t, w) returned a label, calling
\* bin_time on that label (a time string without seconds) with the same w does not
\* raise and returns the same label.
C13_Idempotent ==
    /\ bin_pc = "raised" => bin_hist = <<>>
    /\ \A i \in 2..Len(bin_hist) :
           /\ bin_hist[i].arg = bin_hist[i - 1].label
           /\ bin_hist[i].label = bin_hist[i - 1].label

\* C13 witness: "12:40:00" was binned to "12:30" at width 15, and "12:30" was
\* binned again at that width
C13_Witness ==
    /\ bin_minutes = 15 /\ Len(bin_hist) = 2
    /\ bin_hist[1].arg = Clock(12, 40, 0)
    /\ bin_hist[2].arg = <<"1", "2", ":", "3", "0">>
    /\ bin_pc = "returned"


\* the argument of the caller's first call of bin_time
FirstArg == IF bin_hist = <<>> THEN bin_arg ELSE bin_hist[1].arg

\* the hour field or the minute field of t is missing or is no number to int()
NonNumericField(t) ==
    \/ Len(Split(t)) < 2
    \/ ~IsInt(Split(t)[1])
    \/ ~IsInt(Split(t)[2])

\* C14: fail fast on malformed input. For every time string whose hour field or
\* minute field is not numeric, the call of bin_time ends in an error and returns
\* no label.
C14_FailsFast ==
    (NonNumericField(FirstArg) /\ bin_pc # "call") => (bin_pc = "raised" /\ bin_hist = <<>>)


-----------------------------------------------------------------------------
(* The collector and the worker threads                                    *)

\* the entries of an index: (key, position in the key's list)
Entries(d) == UNION {{<<k, i>> : i \in 1..Len(d[k])} : k \in DOMAIN d}

\* the slots the futures in S returned: (future, position in its list)
Results(S) == UNION {{<<t, i>> : i \in 1..Len(task[t].slots)} : t \in S}

\* C15: drain before final. When get_all_available_times returns the index, one
\* future per provider was submitted, every one of them has finished (returned or
\* raised), none is queued or running, every one was yielded, and the slots of
\* every future that returned are in the index, one entry for each.
C15_DrainBeforeFinal ==
    mainpc = "returned" =>
        /\ submitted = Len(providers) /\ Len(task) = Len(providers)
        /\ Queued = {} /\ Running = {} /\ Done = Tasks
        /\ yielded = Tasks /\ cur = 0 /\ rest = <<>>
        /\ SlotsOf(Returned) \subseteq Pairs(slots_dict)
        /\ Cardinality(Entries(slots_dict)) = Cardinality(Results(Returned))

\* C15 witness: a run over 2 providers and 2 days returned an index with the six
\* slots of a provider with two pages a day and the two of a provider with one
C15_Witness ==
    /\ mainpc = "returned" /\ Len(providers) = 2 /\ n_days = 2
    /\ script[1] = TwoPages(2) /\ script[2] = Healthy(2)
    /\ Cardinality(Entries(slots_dict)) = 8


\* C16: mutual exclusion on the index. Every step that changes the index is a
\* step of the calling thread inside its merge loop: it adds the next unmerged slot
\* of the one future being merged, and it is no step of a worker thread (no
\* future's state changes in it). The merge of a future's slots starts with its
\* whole list and only when no merge is in progress, and it is left only when the
\* list is exhausted: two merges never interleave.
C16_SingleWriter ==
    [][/\ slots_dict' # slots_dict =>
              /\ mainpc = "collect" /\ cur # 0 /\ cur \in yielded
              /\ slots_dict' = SetDefaultAppend(slots_dict, Head(rest), providers[cur])
              /\ rest' = Tail(rest)
              /\ task' = task /\ reqs' = reqs
       /\ (task' # task \/ reqs' # reqs) => slots_dict' = slots_dict
       /\ cur' # cur =>
              \/ cur = 0 /\ rest' = task[cur'].slots /\ cur' \notin yielded
              \/ cur' = 0 /\ rest' = <<>>]_vars

\* C16 witness: the calling thread is in the middle of merging the slots of one
\* future while a worker thread waits for a response in another
C16_Witness ==
    /\ cur # 0 /\ slots_dict # <<>> /\ Len(rest) >= 1
    /\ \E t \in Running : t # cur /\ task[t].wpc = "wait"


-----------------------------------------------------------------------------
(* The cursor of a walk                                                    *)

\* a response with status success and the fields down to `more`
SuccessPage(r) == r.kind = "json" /\ r.status = "success" /\ r.shape = "full"

\* the page says more and carries a next_start_time that is a string
Continues(r) == r.more /\ r.next.k = "str"

\* C17: cursor stop condition. No request carries a start_time that is absent or
\* null. A request follows a success page only if the page has more = true and a
\* next_start_time; a walk whose last response is such a page does not stop there.
\* A success page with more = true and a missing or null next_start_time ends the
\* walk normally: the walk returns the slots of the pages up to and including it.
C17_CursorStop ==
    \A t \in Tasks : \A d \in 0..(n_days - 1) :
        LET s == WalkScript(t, d)
            n == NumRequests(t, d)
        IN  /\ \A i \in 1..Len(reqs[t]) : reqs[t][i].start_time.k = "str"
            /\ \A j \in 1..(n - 1) : Continues(ResponseTo(s, j))
            /\ \A i \in 1..Len(walks[t]) :
                   (walks[t][i].date = d /\ SuccessPage(ResponseTo(s, n)))
                       => ~Continues(ResponseTo(s, n))
            /\ \A j \in 1..n :
                   LET r == ResponseTo(s, j)
                   IN  (/\ SuccessPage(r) /\ r.more /\ r.next.k # "str"
                        /\ InWalk(t, d) => j \in Processed(t))
                           => \E i \in 1..Len(walks[t]) :
                                  /\ walks[t][i].date = d
                                  /\ walks[t][i].nreq = j
                                  /\ walks[t][i].result
                                         = BinPages(providers[t], Responses(s, j))


\* the page requests future t has sent for day d, in the order sent
ReqsOf(t, d) == SelectSeq(reqs[t], LAMBDA q : q.appt_date = d)

\* C18: cursor chain ordering. In every walk the first request has start_time
\* "06:00:00", and request i+1 has as start_time the next_start_time of the response
\* to request i, a response that said more. A request is sent only when the
\* response to the one before has been received and processed: a walk never has
\* two requests outstanding.
C18_CursorChain ==
    /\ [](\A t \in Tasks : \A d \in 0..(n_days - 1) :
              LET q == ReqsOf(t, d)
                  s == WalkScript(t, d)
              IN  /\ Len(q) >= 1 => q[1].start_time = Str(earliest_time)
                  /\ \A i \in 1..(Len(q) - 1) :
                         /\ q[i + 1].start_time = ResponseTo(s, i).next
                         /\ ResponseTo(s, i).more
                  /\ InWalk(t, d) => Len(q) - Cardinality(Processed(t)) \in {0, 1})
    /\ [][\A t \in Tasks :
              reqs'[t] # reqs[t] =>
                  /\ task[t].st = "running" /\ task[t].wpc = "send"
                  /\ Cardinality(Processed(t)) = task[t].nreq
                  /\ Len(reqs'[t]) = Len(reqs[t]) + 1]_vars

\* C18 witness: a walk sent "06:00:00", then the "09:10:00" of its first response,
\* then the "12:45:00" of its second, and waits for the third response
C18_Witness ==
    \E t \in Tasks :
        /\ task[t].st = "running" /\ task[t].wpc = "wait" /\ Len(ReqsOf(t, 0)) = 3
        /\ ReqsOf(t, 0)[2].start_time = Str(t0910)
        /\ ReqsOf(t, 0)[3].start_time = Str(t1245)
        /\ ResponseTo(WalkScript(t, 0), 2).next = Str(t1245)


\* the cursor of the walk future t is in
Cursor(t) == [start_time |-> task[t].start_time, more |-> task[t].more]

\* C19: frame condition on shared state. The headers of the shared session are
\* those set at construction in every state, and no step changes them. A step of
\* the worker thread of one future (it changes that future's call state or request
\* history) leaves the cursor (start_time, more) of every other future as it was.
C19_Frame ==
    /\ [](sess_headers = ApiHeaders)
    /\ [][/\ sess_headers' = sess_headers
          /\ \A t \in Tasks :
                 (task'[t] # task[t] \/ reqs'[t] # reqs[t]) =>
                     \A u \in Tasks \ {t} : Cursor(u)' = Cursor(u)]_vars

\* C19 witness: two walks are running at once, one at the "09:10:00" its first
\* page gave it, the other still at "06:00:00" and waiting for its first response
C19_Witness ==
    /\ sess_headers = ApiHeaders
    /\ \E t, u \in Running :
           /\ task[t].start_time = Str(t0910) /\ task[t].nreq = 1
           /\ task[u].start_time = Str(earliest_time) /\ task[u].wpc = "wait"


\* The statement of C19 for _fill_more_time_slots: a step of the worker thread of
\* one future changes the queue, the requests and the ProviderInfo (its next_slot
\* cursors among it) of that future only.
C19_Frame_Nabber ==
    [][\A f \in Fills :
           (fill'[f] # fill[f] \/ fill_reqs'[f] # fill_reqs[f]) =>
               \A g \in Fills \ {f} :
                   /\ fill'[g].queue = fill[g].queue
                   /\ fill'[g].next_time = fill[g].next_time
                   /\ prov_info_list'[g] = prov_info_list[g]]_vars


-----------------------------------------------------------------------------
(* src/paa.py: PAAScheduleNabber, stage 3                                  *)

\* provider dicts handed to stage 3
MaxInfos == 2

\* `for fac_id in FacilityId`: the values of the enum in definition order
FacilityIds == <<1, 13>>

\* a provider dict of _extract_provider_info
Info(i) == [npi |-> i, name |-> <<"Dr", i>>, degree |-> IF i % 2 = 1 THEN "MD" ELSE "NP"]

\* the body the server sends for the provider's first slots at a facility: one day,
\* one slot whose time tells the provider and the facility apart
ProvSlots(npi, fac_id) ==
    [kind |-> "json", shape |-> "full", facility_id |-> fac_id,
     appt_slots |-> <<[appt_date |-> 0,
                       appt_slots |-> <<[time |-> Clock(8 + npi, IF fac_id = 1 THEN 0 ELSE 30, 0)]>>,
                       next_start_time |-> IF fac_id = 1 THEN None ELSE Str(t0910)]>>]

\* what can come back for a request: the body above, a body without 'response',
\* a body that is no JSON, or an exception of the transport
Stage3Answers(npi, fac_id) ==
    { ProvSlots(npi, fac_id),
      [ProvSlots(npi, fac_id) EXCEPT !.shape = "no_response"],
      [kind |-> "not_json"],
      [kind |-> "raise"] }

\* _extract_provider_schedule
ExtractProviderSchedule(res_json) ==
    [facility |-> res_json.facility_id,
     time_slots |-> [d \in 1..Len(res_json.appt_slots) |->
                        [i \in 1..Len(res_json.appt_slots[d].appt_slots) |->
                            RsplitHead(res_json.appt_slots[d].appt_slots[i].time)]],
     next_slot |-> [d \in 1..Len(res_json.appt_slots) |-> res_json.appt_slots[d].next_start_time]]

\* ProviderInfo(**info, **schedule)
MakeProviderInfo(info, schedule) ==
    [npi |-> info.npi, name |-> info.name, degree |-> info.degree,
     facility |-> schedule.facility, time_slots |-> schedule.time_slots,
     next_slot |-> schedule.next_slot]

S3Futures == 1..Len(s3_futures)
S3Queued == {f \in S3Futures : s3_futures[f].st = "queued"}
S3Running == {f \in S3Futures : s3_futures[f].st = "running"}
S3Done == {f \in S3Futures : s3_futures[f].st \in {"returned", "raised"}}

\* the future of the k-th ex.submit: futures[f] = (info, fac_id)
NthSubmit(k) ==
    [info |-> ((k - 1) \div Len(FacilityIds)) + 1,
     fac_id |-> FacilityIds[((k - 1) % Len(FacilityIds)) + 1],
     st |-> "queued"]

\* one iteration of `for fac_id in FacilityId` inside `for info in infos`
S3Submit ==
    /\ s3pc = "submit"
    /\ Len(s3_futures) < Len(infos) * Len(FacilityIds)
    /\ s3_futures' = Append(s3_futures, NthSubmit(Len(s3_futures) + 1))
    /\ s3pc' = IF Len(s3_futures) + 1 = Len(infos) * Len(FacilityIds) THEN "collect"
               ELSE "submit"
    /\ UNCHANGED <<infos, s3_script, s3_yielded, s3_j, s3_out, s3_for,
                   nabberVars, retrieverVars, binVars, prov_info_given>>

\* a worker thread takes the oldest queued work item: self.sess.post sends the request
S3Start(f) ==
    /\ f \in S3Queued
    /\ \A g \in S3Queued : f <= g
    /\ Cardinality(S3Running) < workers
    /\ s3_futures' = [s3_futures EXCEPT ![f].st = "running"]
    /\ UNCHANGED <<infos, s3_script, s3pc, s3_yielded, s3_j, s3_out, s3_for,
                   nabberVars, retrieverVars, binVars, prov_info_given>>

\* self.sess.post returns the Response or raises: the future is finished
S3Finish(f) ==
    /\ f \in S3Running
    /\ s3_futures' = [s3_futures EXCEPT ![f].st =
                         IF s3_script[f].kind = "raise" THEN "raised" ELSE "returned"]
    /\ UNCHANGED <<infos, s3_script, s3pc, s3_yielded, s3_j, s3_out, s3_for,
                   nabberVars, retrieverVars, binVars, prov_info_given>>

\* one iteration of the as_completed loop: the try/except around f.result() and
\* res.json(), then _extract_provider_schedule(j) on whatever `j` is bound to (an
\* UnboundLocalError while it is unbound, a KeyError without 'response') and
\* out.append
S3Collect(f) ==
    /\ s3pc = "collect"
    /\ f \in S3Done \ s3_yielded
    /\ s3_yielded' = s3_yielded \cup {f}
    /\ LET info == infos[s3_futures[f].info]
           fac_id == s3_futures[f].fac_id
           failed == s3_script[f].kind # "json"
           now_j == IF failed THEN s3_j ELSE s3_script[f]
       IN  /\ errors' = IF failed THEN Append(errors, [info |-> info, fac_id |-> fac_id, f |-> f])
                        ELSE errors
           /\ s3_j' = now_j
           /\ IF now_j = Unbound \/ now_j.shape # "full"
              THEN s3pc' = "raised" /\ UNCHANGED <<s3_out, s3_for>>
              ELSE /\ s3pc' = "collect"
                   /\ s3_out' = Append(s3_out, MakeProviderInfo(info, ExtractProviderSchedule(now_j)))
                   /\ s3_for' = Append(s3_for, f)
    /\ UNCHANGED <<infos, s3_script, s3_futures,
                   workers, more_script, prov_info_list, s4pc, s4_submitted, fill, fill_reqs,
                   s4_yielded, prov_info_filled, out, retrieverVars, binVars, prov_info_given>>

\* `return out`
S3Return ==
    /\ s3pc = "collect"
    /\ s3_yielded = 1..(Len(infos) * Len(FacilityIds))
    /\ s3pc' = "returned"
    /\ UNCHANGED <<infos, s3_script, s3_futures, s3_yielded, s3_j, s3_out, s3_for,
                   nabberVars, retrieverVars, binVars, prov_info_given>>

NextStage3 ==
    \/ S3Submit
    \/ \E f \in 1..Len(s3_futures) : S3Start(f)
    \/ \E f \in 1..Len(s3_futures) : S3Finish(f)
    \/ \E f \in 1..Len(s3_futures) : S3Collect(f)
    \/ S3Return

\* 1..MaxInfos providers, every pattern of answers, a pool of 1 or 8 threads
InitStage3 ==
    /\ RetrieverIdle
    /\ BinIdle
    /\ prov_info_given = <<>>
    /\ workers \in {1, default_workers}
    /\ more_script = <<>> /\ prov_info_list = <<>> /\ s4pc = "idle" /\ s4_submitted = 0
    /\ fill = <<>> /\ fill_reqs = <<>> /\ s4_yielded = {} /\ prov_info_filled = 0
    /\ out = <<>> /\ errors = <<>>
    /\ infos \in {[i \in 1..n |-> Info(i)] : n \in 1..MaxInfos}
    /\ \E answers \in [1..(Len(infos) * Len(FacilityIds)) -> 1..4] :
           s3_script = [k \in 1..(Len(infos) * Len(FacilityIds)) |->
                           LET a == answers[k]
                               npi == infos[NthSubmit(k).info].npi
                               fac_id == NthSubmit(k).fac_id
                           IN  IF a = 1 THEN ProvSlots(npi, fac_id)
                               ELSE IF a = 2 THEN [ProvSlots(npi, fac_id) EXCEPT !.shape = "no_response"]
                               ELSE IF a = 3 THEN [kind |-> "not_json"]
                               ELSE [kind |-> "raise"]]
    /\ s3pc = "submit"
    /\ s3_futures = <<>>
    /\ s3_yielded = {}
    /\ s3_j = Unbound
    /\ s3_out = <<>>
    /\ s3_for = <<>>

SpecStage3 == InitStage3 /\ [][NextStage3]_vars

\* C20: stage 3 pairs each provider with its own response. Every ProviderInfo in
\* `out` has the npi, name and degree of the provider of the future whose iteration
\* appended it, and the facility, time slots and next slots extracted from the
\* response to that future's own request, which was a JSON body: in every
\* completion order and under every pattern of failed requests.
C20_OwnResponse ==
    \A i \in 1..Len(s3_out) :
        LET f == s3_for[i]
            info == infos[s3_futures[f].info]
        IN  /\ s3_out[i].npi = info.npi
            /\ s3_out[i].name = info.name
            /\ s3_out[i].degree = info.degree
            /\ s3_script[f].kind = "json"
            /\ s3_out[i] = MakeProviderInfo(info, ExtractProviderSchedule(s3_script[f]))


-----------------------------------------------------------------------------
(* The dates of one provider's task                                        *)

\* the requests of the walks future t has completed
RECURSIVE SumRequests(_)
SumRequests(ws) == IF ws = <<>> THEN 0 ELSE Head(ws).nreq + SumRequests(Tail(ws))

\* the requests of future t whose response has been received
Answered(t) == SumRequests(walks[t]) + Cardinality(Processed(t))

\* C22: the dates of a provider's task are walked one after another. The requests
\* of a future go through the dates 0, 1, ... in ascending order without a gap; a
\* request for a date is sent only when the walk of every earlier date has ended,
\* and no request for a date follows the end of its walk; at most one request of
\* the future is in flight; and the future's slot list is, at every moment, the
\* results of the walks completed so far in date order, all n_days of them when
\* the future returns.
C22_DatesInTurn ==
    \A t \in Tasks :
        /\ \A i \in 1..Len(reqs[t]) :
               /\ reqs[t][i].appt_date \in 0..(n_days - 1)
               /\ i = 1 => reqs[t][i].appt_date = 0
               /\ i > 1 => reqs[t][i].appt_date - reqs[t][i - 1].appt_date \in {0, 1}
               /\ \A e \in 0..(reqs[t][i].appt_date - 1) :
                      \E k \in 1..Len(walks[t]) : walks[t][k].date = e
        /\ \A k \in 1..Len(walks[t]) :
               /\ walks[t][k].date = k - 1
               /\ walks[t][k].nreq = NumRequests(t, k - 1)
        /\ Len(reqs[t]) - Answered(t) \in {0, 1}
        /\ task[t].slots = ConcatResults(walks[t])
        /\ t \in Returned => Len(walks[t]) = n_days

\* C22 witness: over 2 days a future sent two requests for date 0 and then two for
\* date 1, and returned the three slots of date 0 followed by the three of date 1
C22_Witness ==
    \E t \in Returned :
        /\ n_days = 2 /\ Len(reqs[t]) = 4
        /\ reqs[t][2].appt_date = 0 /\ reqs[t][3].appt_date = 1
        /\ Len(task[t].slots) = 6
        /\ task[t].slots[3].date = 0 /\ task[t].slots[4].date = 1


-----------------------------------------------------------------------------
(* src/paa.py: one call of _fill_more_time_slots                           *)

\* pages with a next_start_time that a date's script answers before its last response
MaxFillPages == 2

\* last responses: a null next_start_time, an empty one, a body without
\* 'appt_more_slots', an exception of the transport
FillLastResponses(d) ==
    { Page(FALSE, None, <<Appt(d, t0912)>>),
      Page(TRUE, Str(<<>>), <<>>),
      NoShape("no_appt_more_slots"),
      TransportError }

\* a date's script: pages of more slots that name a next start time (stage 4 does
\* not read `more`), then a last response
FillScripts(d) ==
    {[i \in 1..k |-> Page(FALSE, Str(t1245), <<Appt(d, t1240)>>)] \o <<last>> :
        k \in 0..MaxFillPages, last \in FillLastResponses(d)}

\* the next_slot dicts of the ProviderInfo: per date a start time or None, or the
\* empty string on every date
FillNextSlots ==
    [1..NabberDays -> {None, Str(t0910)}] \cup {[d \in 1..NabberDays |-> Str(<<>>)]}

\* one ProviderInfo, every next_slot dict, every script
InitFill ==
    /\ RetrieverIdle
    /\ BinIdle
    /\ Stage3Idle
    /\ workers = default_workers
    /\ \E ns \in FillNextSlots : prov_info_list = <<ProvInfo(1, ns)>>
    /\ \E sc \in [1..NabberDays -> UNION {FillScripts(d) : d \in 0..(NabberDays - 1)}] :
           /\ \A d \in 1..NabberDays : sc[d] \in FillScripts(d - 1)
           /\ more_script = <<sc>>
    /\ prov_info_given = prov_info_list
    /\ s4pc = "submit"
    /\ s4_submitted = 0
    /\ fill = <<>>
    /\ fill_reqs = <<>>
    /\ s4_yielded = {}
    /\ prov_info_filled = 0
    /\ out = <<>>
    /\ errors = <<>>

SpecFill == InitFill /\ [][NextStage4]_vars

\* the number of the request at position i of future f among those for its date
RoundOf(f, i) ==
    Cardinality({k \in 1..i : fill_reqs[f][k].appt_date = fill_reqs[f][i].appt_date})

\* the slots of the first n pages fetched for date d by future f, in fetch order
RECURSIVE FetchedSlots(_, _, _)
FetchedSlots(f, d, n) ==
    IF n = 0 THEN <<>>
    ELSE FetchedSlots(f, d, n - 1) \o ExtractTimeSlots(ResponseTo(more_script[f][d + 1], n))

\* the responses for date d that future f has taken in
FillProcessed(f, d) ==
    IF fill[f].st = "running" /\ fill[f].wpc = "wait" /\ fill[f].date = d
    THEN FillRequests(f, d) - 1
    ELSE IF fill[f].st = "raised" /\ fill[f].date = d THEN FillRequests(f, d) - 1
    ELSE FillRequests(f, d)

\* C21: the work queue of _fill_more_time_slots. The queue never holds two entries
\* of one date, nor an entry of the date whose request is in flight. A date whose
\* initial next_slot is empty is never requested and keeps its time_slots. The
\* dates are served round-robin in FIFO order: the requests come round by round,
\* within a round in the order of the dates, each date's first request with its
\* initial next_slot and each later one with the next_start_time of the date's
\* response before. At every moment time_slots[date] is the initial slots followed
\* by the slots of the pages taken in for the date, in fetch order, and when the
\* call has returned next_slot[date] is empty for every date.
C21_FillQueue ==
    \A f \in Fills :
        LET given == prov_info_given[f]
            info == prov_info_list[f]
            q == fill[f].queue
            rq == fill_reqs[f]
        IN  /\ \A i, j \in 1..Len(q) : i # j => q[i].date # q[j].date
            /\ (fill[f].st = "running" /\ fill[f].wpc = "wait") =>
                   \A i \in 1..Len(q) : q[i].date # fill[f].date
            /\ \A d \in 0..(NabberDays - 1) :
                   /\ ~Truthy(given.next_slot[d + 1]) =>
                          /\ FillRequests(f, d) = 0
                          /\ info.time_slots[d + 1] = given.time_slots[d + 1]
                   /\ info.time_slots[d + 1] =
                          given.time_slots[d + 1] \o FetchedSlots(f, d, FillProcessed(f, d))
                   /\ fill[f].st = "returned" => ~Truthy(info.next_slot[d + 1])
            /\ \A i, j \in 1..Len(rq) :
                   i < j =>
                       \/ RoundOf(f, i) < RoundOf(f, j)
                       \/ RoundOf(f, i) = RoundOf(f, j) /\ rq[i].appt_date < rq[j].appt_date
            /\ \A i \in 1..Len(rq) :
                   rq[i].start_time =
                       IF RoundOf(f, i) = 1 THEN given.next_slot[rq[i].appt_date + 1]
                       ELSE ExtractNextTime(ResponseTo(more_script[f][rq[i].appt_date + 1],
                                                       RoundOf(f, i) - 1))

\* C21 witness: with next slots on both dates, the call fetched date 0, date 1,
\* date 0 and date 1 again, and returned with three slots on the first date
C21_Witness ==
    \E f \in Fills :
        /\ fill[f].st = "returned" /\ Len(fill_reqs[f]) = 4
        /\ fill_reqs[f][1].appt_date = 0 /\ fill_reqs[f][2].appt_date = 1
        /\ fill_reqs[f][3].appt_date = 0 /\ fill_reqs[f][4].appt_date = 1
        /\ Len(prov_info_list[f].time_slots[1]) = 3

====
